---- MODULE Spec2Model ----
(***************************************************************************)
(* Voice-ordering kiosk: the transcript interpreter and cart reconciler of *)
(* the VoiceAssistant component (src/components/VoiceAssistant.tsx, lines  *)
(* 1-703) and of the Index page (src/pages/Index.tsx with                  *)
(* src/data/mockData.ts), modelled as one state machine.                   *)
(*                                                                         *)
(* Representation.                                                         *)
(*  - A transcript is a sequence of tokens (the maximal runs of            *)
(*    non-blank characters, joined by single blanks in the program's       *)
(*    string); sentence punctuation is a token of its own.  Spell gives    *)
(*    the characters of every token of the vocabulary, and every test the  *)
(*    code makes on characters (includes, \w+, \d+, parseInt,              *)
(*    toLowerCase) is computed on those characters.                        *)
(*  - A quantity is a JavaScript number.  The only non-integers the        *)
(*    program can produce are multiples of 0.5 (quantityWords.half,        *)
(*    mockData.ts line 148), so the number q is represented by the         *)
(*    integer 2q: Num(n) is the integer n, Half is 0.5.                    *)
(*  - Cart entries are objects: a cart is a sequence of references into    *)
(*    heap, so that two arrays sharing an entry object (a shallow copy)    *)
(*    see each other's writes.                                             *)
(***************************************************************************)
EXTENDS Integers, Sequences, FiniteSets, TLC

(***************************************************************************)
(* Bounds of the model.                                                    *)
(***************************************************************************)
\* Largest quantity (in whole units) an entry may reach; handlers whose
\* result would exceed it are not taken.
MaxQty == 3
\* Largest number of pending Index timeouts.
MaxTimers == 2
\* Largest number of consecutive runs of the transcript effect one handler causes.
MaxRenders == 3

(***************************************************************************)
(* Characters and strings.                                                 *)
(***************************************************************************)
DigitChars == <<"0", "1", "2", "3", "4", "5", "6", "7", "8", "9">>
LowerChars == <<"a", "b", "c", "d", "e", "f", "g", "h", "i", "j", "k", "l", "m",
                "n", "o", "p", "q", "r", "s", "t", "u", "v", "w", "x", "y", "z">>
UpperChars == <<"A", "B", "C", "D", "E", "F", "G", "H", "I", "J", "K", "L", "M",
                "N", "O", "P", "Q", "R", "S", "T", "U", "V", "W", "X", "Y", "Z">>

Range(f) == {f[i] : i \in DOMAIN f}

\* \d of a JavaScript regular expression
IsDigitChar(c) == c \in Range(DigitChars)
\* \w of a JavaScript regular expression
IsWordChar(c) == c \in Range(DigitChars) \cup Range(LowerChars) \cup Range(UpperChars) \cup {"_"}
DigitValue(c) == (CHOOSE i \in DOMAIN DigitChars : DigitChars[i] = c) - 1
LowerChar(c) ==
    IF c \in Range(UpperChars)
    THEN LowerChars[CHOOSE i \in DOMAIN UpperChars : UpperChars[i] = c]
    ELSE c

Spell ==
    "start" :> <<"s", "t", "a", "r", "t">>
    @@ "recording" :> <<"r", "e", "c", "o", "r", "d", "i", "n", "g">>
    @@ "stop" :> <<"s", "t", "o", "p">>
    @@ "go" :> <<"g", "o">>
    @@ "to" :> <<"t", "o">>
    @@ "cart" :> <<"c", "a", "r", "t">>
    @@ "add" :> <<"a", "d", "d">>
    @@ "more" :> <<"m", "o", "r", "e">>
    @@ "back" :> <<"b", "a", "c", "k">>
    @@ "menu" :> <<"m", "e", "n", "u">>
    @@ "reset" :> <<"r", "e", "s", "e", "t">>
    @@ "clear" :> <<"c", "l", "e", "a", "r">>
    @@ "remove" :> <<"r", "e", "m", "o", "v", "e">>
    @@ "cancel" :> <<"c", "a", "n", "c", "e", "l">>
    @@ "order" :> <<"o", "r", "d", "e", "r">>
    @@ "zero" :> <<"z", "e", "r", "o">>
    @@ "one" :> <<"o", "n", "e">>
    @@ "two" :> <<"t", "w", "o">>
    @@ "three" :> <<"t", "h", "r", "e", "e">>
    @@ "half" :> <<"h", "a", "l", "f">>
    @@ "a" :> <<"a">>
    @@ "twenty" :> <<"t", "w", "e", "n", "t", "y">>
    @@ "twenty-one" :> <<"t", "w", "e", "n", "t", "y", "-", "o", "n", "e">>
    @@ "0" :> <<"0">>
    @@ "1" :> <<"1">>
    @@ "2" :> <<"2">>
    @@ "3" :> <<"3">>
    @@ "samosa" :> <<"s", "a", "m", "o", "s", "a">>
    @@ "mango" :> <<"m", "a", "n", "g", "o">>
    @@ "lassi" :> <<"l", "a", "s", "s", "i">>
    @@ "paneer" :> <<"p", "a", "n", "e", "e", "r">>
    @@ "tikka" :> <<"t", "i", "k", "k", "a">>
    @@ "masala" :> <<"m", "a", "s", "a", "l", "a">>
    @@ "dosa" :> <<"d", "o", "s", "a">>
    @@ "butter" :> <<"b", "u", "t", "t", "e", "r">>
    @@ "chicken" :> <<"c", "h", "i", "c", "k", "e", "n">>
    @@ "veg" :> <<"v", "e", "g">>
    @@ "biryani" :> <<"b", "i", "r", "y", "a", "n", "i">>
    @@ "chole" :> <<"c", "h", "o", "l", "e">>
    @@ "bhature" :> <<"b", "h", "a", "t", "u", "r", "e">>
    @@ "idli" :> <<"i", "d", "l", "i">>
    @@ "sambhar" :> <<"s", "a", "m", "b", "h", "a", "r">>
    @@ "dal" :> <<"d", "a", "l">>
    @@ "tadka" :> <<"t", "a", "d", "k", "a">>
    @@ "gulab" :> <<"g", "u", "l", "a", "b">>
    @@ "jamun" :> <<"j", "a", "m", "u", "n">>
    @@ "naan" :> <<"n", "a", "a", "n">>
    @@ "." :> <<".">>
    @@ "Samosa" :> <<"S", "a", "m", "o", "s", "a">>
    @@ "Two" :> <<"T", "w", "o">>
    @@ "Start" :> <<"S", "t", "a", "r", "t">>
    @@ "Paneer" :> <<"P", "a", "n", "e", "e", "r">>
    @@ "Tikka" :> <<"T", "i", "k", "k", "a">>
    @@ "Masala" :> <<"M", "a", "s", "a", "l", "a">>
    @@ "Dosa" :> <<"D", "o", "s", "a">>
    @@ "Butter" :> <<"B", "u", "t", "t", "e", "r">>
    @@ "Chicken" :> <<"C", "h", "i", "c", "k", "e", "n">>
    @@ "Veg" :> <<"V", "e", "g">>
    @@ "Biryani" :> <<"B", "i", "r", "y", "a", "n", "i">>
    @@ "Chole" :> <<"C", "h", "o", "l", "e">>
    @@ "Bhature" :> <<"B", "h", "a", "t", "u", "r", "e">>
    @@ "Idli" :> <<"I", "d", "l", "i">>
    @@ "Sambhar" :> <<"S", "a", "m", "b", "h", "a", "r">>
    @@ "Dal" :> <<"D", "a", "l">>
    @@ "Tadka" :> <<"T", "a", "d", "k", "a">>
    @@ "Gulab" :> <<"G", "u", "l", "a", "b">>
    @@ "Jamun" :> <<"J", "a", "m", "u", "n">>
    @@ "Mango" :> <<"M", "a", "n", "g", "o">>
    @@ "Lassi" :> <<"L", "a", "s", "s", "i">>
    @@ "Naan" :> <<"N", "a", "a", "n">>
    @@ "four" :> <<"f", "o", "u", "r">>
    @@ "five" :> <<"f", "i", "v", "e">>
    @@ "six" :> <<"s", "i", "x">>
    @@ "seven" :> <<"s", "e", "v", "e", "n">>
    @@ "eight" :> <<"e", "i", "g", "h", "t">>
    @@ "nine" :> <<"n", "i", "n", "e">>
    @@ "ten" :> <<"t", "e", "n">>
    @@ "an" :> <<"a", "n">>
    @@ "single" :> <<"s", "i", "n", "g", "l", "e">>
    @@ "double" :> <<"d", "o", "u", "b", "l", "e">>
    @@ "triple" :> <<"t", "r", "i", "p", "l", "e">>
    @@ "dozen" :> <<"d", "o", "z", "e", "n">>
    @@ "couple" :> <<"c", "o", "u", "p", "l", "e">>
    @@ "few" :> <<"f", "e", "w">>
    @@ "show" :> <<"s", "h", "o", "w">>
    @@ "view" :> <<"v", "i", "e", "w">>
    @@ "place" :> <<"p", "l", "a", "c", "e">>
    @@ "confirm" :> <<"c", "o", "n", "f", "i", "r", "m">>
    @@ "checkout" :> <<"c", "h", "e", "c", "k", "o", "u", "t">>
    @@ "xyzfood" :> <<"x", "y", "z", "f", "o", "o", "d">>
    @@ "xyz" :> <<"x", "y", "z">>
    @@ "2nd" :> <<"2", "n", "d">>
    @@ "20" :> <<"2", "0">>
Vocabulary == DOMAIN Spell

\* String.prototype.toLowerCase on one token
LowerAll(cs) == [i \in DOMAIN cs |-> LowerChar(cs[i])]
TokenOf(cs) == CHOOSE t \in Vocabulary : Spell[t] = cs
toLowerCase(tok) == TokenOf(LowerAll(Spell[tok]))

\* toLowerCase().trim() of a whole text
Normalize(text) == [i \in DOMAIN text |-> toLowerCase(text[i])]

SentenceMarks == {".", "!", "?"}

\* The program's string: the tokens joined by single blanks, a sentence mark
\* directly after the word before it.
RECURSIVE Join(_)
Join(text) ==
    IF text = <<>> THEN <<>>
    ELSE Spell[Head(text)]
            \o (IF Len(text) = 1 \/ text[2] \in SentenceMarks THEN <<>> ELSE <<" ">>)
            \o Join(Tail(text))

\* String.prototype.includes on character sequences
IsSubstring(hay, needle) ==
    \E i \in 0..(Len(hay) - Len(needle)) : SubSeq(hay, i + 1, i + Len(needle)) = needle
Includes(text, phrase) == IsSubstring(Join(text), Join(phrase))
IsSuffix(cs, end) ==
    Len(cs) >= Len(end) /\ SubSeq(cs, Len(cs) - Len(end) + 1, Len(cs)) = end
EndsWith(tok, word) == IsSuffix(Spell[tok], Spell[word])

\* /^\d+$/ and /^\w+$/ on one token
AllDigits(cs) == \A i \in DOMAIN cs : IsDigitChar(cs[i])
AllWordChars(cs) == \A i \in DOMAIN cs : IsWordChar(cs[i])
IsDigits(tok) == AllDigits(Spell[tok])
IsWord(tok) == AllWordChars(Spell[tok])

(***************************************************************************)
(* Numbers.                                                                *)
(***************************************************************************)
Half == 1
Num(n) == n * (Half + Half)
\* the value undefined (and NaN) of a number-valued expression
Undefined == -1

\* parseInt(s, 10) of a token: the value of its leading digits, NaN without one.
RECURSIVE DigitsValue(_, _)
DigitsValue(cs, acc) ==
    IF cs = <<>> \/ ~IsDigitChar(Head(cs)) THEN acc
    ELSE DigitsValue(Tail(cs), 10 * acc + DigitValue(Head(cs)))
LeadingNumber(cs) ==
    IF IsDigitChar(Head(cs)) THEN Num(DigitsValue(cs, 0)) ELSE Undefined
parseInt(tok) == LeadingNumber(Spell[tok])

units == <<"zero", "one", "two", "three", "four", "five", "six", "seven", "eight", "nine",
           "ten", "eleven", "twelve", "thirteen", "fourteen", "fifteen", "sixteen",
           "seventeen", "eighteen", "nineteen">>
tens == <<"", "", "twenty", "thirty", "forty", "fifty", "sixty", "seventy", "eighty", "ninety">>
maxNumber == 50

\* generateNumberWords: the table as a set of <<key, value>> pairs
generateNumberWords(max) ==
    {<<units[i + 1], i>> : i \in {j \in 0..(Len(units) - 1) : j <= max}}
    \cup {<<tens[(i \div 10) + 1], i>> : i \in {j \in 20..max : j % 10 = 0}}
    \cup {<<tens[(i \div 10) + 1] \o "-" \o units[(i % 10) + 1], i>> :
              i \in {j \in 20..max : j % 10 # 0}}
    \cup {<<tens[(i \div 10) + 1] \o " " \o units[(i % 10) + 1], i>> :
              i \in {j \in 20..max : j % 10 # 0}}
numberWordsMapping == generateNumberWords(maxNumber)

\* table[key], undefined for a key the table lacks
Lookup(table, key) ==
    IF \E p \in table : p[1] = key
    THEN Num((CHOOSE p \in table : p[1] = key)[2])
    ELSE Undefined
wordToNumber(word) == Lookup(numberWordsMapping, toLowerCase(word))

\* lines 89-95: num unless it is NaN, else the word's number
NumberOr(num, fromWord) == IF num # Undefined THEN num ELSE fromWord
parseQuantity(quantityText) == NumberOr(parseInt(quantityText), wordToNumber(quantityText))

(***************************************************************************)
(* parseCommand.                                                           *)
(***************************************************************************)
NoItem == <<>>
Cmd(type, item, quantity) == [type |-> type, item |-> item, quantity |-> quantity]
Plain(type) == Cmd(type, NoItem, Undefined)

\* split(/[.!?]+/).filter(s => s.trim())
RECURSIVE SplitSentences(_, _)
SplitSentences(text, cur) ==
    IF text = <<>> THEN (IF cur = <<>> THEN <<>> ELSE <<cur>>)
    ELSE IF Head(text) \in SentenceMarks
         THEN (IF cur = <<>> THEN <<>> ELSE <<cur>>) \o SplitSentences(Tail(text), <<>>)
         ELSE SplitSentences(Tail(text), Append(cur, Head(text)))

\* /^(\d+|\w+)\s+(.+)$/
QuantityMatch(text) == Len(text) >= 2 /\ IsWord(text[1])

\* /remove\s+(.+)$/ : the leftmost "remove" that a blank and more text follow
RemoveMatchAt(s) == {i \in 1..(Len(s) - 1) : EndsWith(s[i], "remove")}
FirstOf(S) == CHOOSE i \in S : \A j \in S : i <= j

\* lines 145-158: the command of the text after "remove"
RemoveCommand(removeText) ==
    IF QuantityMatch(removeText)
    THEN <<Cmd("REMOVE_ITEM", Tail(removeText), parseQuantity(removeText[1]))>>
    ELSE <<Cmd("REMOVE_ITEM", removeText, Undefined)>>

\* lines 176-180 and 196-201: the item with its quantity, or the whole text
\* as the item when the quantity does not parse
AddWithQuantity(itemName, quantity, wholeText) ==
    IF quantity # Undefined
    THEN <<Cmd("ADD_ITEM", itemName, quantity)>>
    ELSE <<Cmd("ADD_ITEM", wholeText, Num(1))>>

\* lines 190-203 (and 170-184 on the text after "add")
AddCommand(text) ==
    IF QuantityMatch(text)
    THEN AddWithQuantity(Tail(text), parseQuantity(text[1]), text)
    ELSE <<Cmd("ADD_ITEM", text, Num(1))>>

\* the commands one sentence pushes (none or one)
SentenceCommands(s) ==
    IF Includes(s, <<"start", "recording">>) THEN <<Plain("START_RECORDING")>>
    ELSE IF Includes(s, <<"stop", "recording">>) THEN <<Plain("STOP_RECORDING")>>
    ELSE IF Includes(s, <<"go", "to", "cart">>) THEN <<Plain("VIEW_CART")>>
    ELSE IF Includes(s, <<"add", "more">>) \/ Includes(s, <<"back", "to", "menu">>)
         THEN <<Plain("BACK_TO_MENU")>>
    ELSE IF Includes(s, <<"reset">>) \/ Includes(s, <<"clear", "cart">>)
         THEN <<Plain("RESET_CART")>>
    ELSE IF Includes(s, <<"remove">>) /\ RemoveMatchAt(s) # {}
         THEN RemoveCommand(SubSeq(s, FirstOf(RemoveMatchAt(s)) + 1, Len(s)))
    ELSE IF s[1] = "add" /\ Len(s) >= 2
         THEN AddCommand(Tail(s))
    ELSE IF QuantityMatch(s)
         THEN AddCommand(s)
    ELSE IF ~(Len(s) = 1 /\ IsDigits(s[1]))
         THEN <<Cmd("ADD_ITEM", s, Num(1))>>
    ELSE <<>>

RECURSIVE Flatten(_)
Flatten(ss) == IF ss = <<>> THEN <<>> ELSE Head(ss) \o Flatten(Tail(ss))

\* lines 109-210: the loop over the sentences
CommandsOf(sentences) ==
    Flatten([i \in DOMAIN sentences |-> SentenceCommands(sentences[i])])
\* lines 213-215
\* A variant that never pushes UNKNOWN: with it C23 fails.
OrUnknownNever(commands, normalizedText) == commands

OrUnknown(commands, normalizedText) ==
    IF commands = <<>> /\ normalizedText # <<>>
    THEN <<Plain("UNKNOWN")>>
    ELSE commands

parseCommand(transcript) ==
    OrUnknown(CommandsOf(SplitSentences(Normalize(transcript), <<>>)), Normalize(transcript))

(***************************************************************************)
(* The catalog and findMenuItem.                                           *)
(***************************************************************************)
mockFoodItems ==
    << [id |-> 1,  name |-> <<"Paneer", "Tikka">>],
       [id |-> 2,  name |-> <<"Masala", "Dosa">>],
       [id |-> 3,  name |-> <<"Butter", "Chicken">>],
       [id |-> 4,  name |-> <<"Veg", "Biryani">>],
       [id |-> 5,  name |-> <<"Samosa">>],
       [id |-> 6,  name |-> <<"Chole", "Bhature">>],
       [id |-> 7,  name |-> <<"Idli", "Sambhar">>],
       [id |-> 8,  name |-> <<"Chicken", "Tikka">>],
       [id |-> 9,  name |-> <<"Dal", "Tadka">>],
       [id |-> 10, name |-> <<"Gulab", "Jamun">>],
       [id |-> 11, name |-> <<"Mango", "Lassi">>],
       [id |-> 12, name |-> <<"Naan">> ] >>
NoMenuItem == 0

\* A variant that returns the last match, as findLast does: with it C31 fails.
FirstItemFindLast(hits, menuItems) ==
    IF hits = {} THEN NoMenuItem
    ELSE menuItems[CHOOSE i \in hits : \A j \in hits : j <= i].id

\* Array.prototype.find: the id of the first item whose lower-cased name
\* includes the lower-cased fragment, NoMenuItem (undefined) without one.
FirstItem(hits, menuItems) ==
    IF hits = {} THEN NoMenuItem ELSE menuItems[FirstOf(hits)].id
findMenuItem(itemName, menuItems) ==
    FirstItem({i \in DOMAIN menuItems :
                    Includes(Normalize(menuItems[i].name), Normalize(itemName))},
              menuItems)

(***************************************************************************)
(* parseVoiceTranscript (the Index page's parser).                         *)
(***************************************************************************)
\* quantityWords, in insertion order (Object.entries order)
quantityWords ==
    << <<"one", Num(1)>>, <<"two", Num(2)>>, <<"three", Num(3)>>, <<"four", Num(4)>>,
       <<"five", Num(5)>>, <<"six", Num(6)>>, <<"seven", Num(7)>>, <<"eight", Num(8)>>,
       <<"nine", Num(9)>>, <<"ten", Num(10)>>, <<"a", Num(1)>>, <<"an", Num(1)>>,
       <<"single", Num(1)>>, <<"double", Num(2)>>, <<"triple", Num(3)>>, <<"half", Half>>,
       <<"dozen", Num(12)>>, <<"couple", Num(2)>>, <<"few", Num(3)>> >>

IsPrefix(p, s) == Len(p) <= Len(s) /\ SubSeq(s, 1, Len(p)) = p

\* the digits a character sequence ends with
RECURSIVE TrailingDigits(_)
TrailingDigits(cs) ==
    IF cs = <<>> \/ ~IsDigitChar(cs[Len(cs)]) THEN <<>>
    ELSE Append(TrailingDigits(SubSeq(cs, 1, Len(cs) - 1)), cs[Len(cs)])

\* the first run of digits of a character sequence (match(/\d+/)), <<>> without one
RECURSIVE FirstDigits(_)
FirstDigits(cs) ==
    IF cs = <<>> THEN <<>>
    ELSE IF IsDigitChar(Head(cs))
         THEN LET n == CHOOSE k \in 1..Len(cs) :
                         /\ \A i \in 1..k : IsDigitChar(cs[i])
                         /\ (k = Len(cs) \/ ~IsDigitChar(cs[k + 1]))
              IN  SubSeq(cs, 1, n)
         ELSE FirstDigits(Tail(cs))

\* new RegExp(`remove\s+(\d+|one|...|few)\s+${itemName}`): the places i where a
\* token ends with "remove", the next token is a quantity and the item name follows
RemovePatternAt(text, itemName) ==
    {i \in 1..(Len(text) - 2) :
        /\ EndsWith(text[i], "remove")
        /\ \/ IsDigits(text[i + 1])
           \/ \E k \in DOMAIN quantityWords : quantityWords[k][1] = text[i + 1]
        /\ IsPrefix(Join(itemName), Join(SubSeq(text, i + 2, Len(text))))}

\* lines 160-172: the quantity read off removeMatch[0]: its first digits, else
\* the first quantity word (in the table's order) it includes, else 1
QuantityOfMatch(digits, words) ==
    IF digits # <<>> THEN Num(DigitsValue(digits, 0))
    ELSE IF words # {} THEN quantityWords[FirstOf(words)][2]
    ELSE Num(1)
WordsIncluded(matched) ==
    {k \in DOMAIN quantityWords : IsSubstring(matched, Spell[quantityWords[k][1]])}
MatchQuantity(matched) == QuantityOfMatch(FirstDigits(matched), WordsIncluded(matched))
RemoveQuantity(text, itemName) ==
    MatchQuantity(Join(<<"remove", text[FirstOf(RemovePatternAt(text, itemName)) + 1]>>
                       \o itemName))

\* new RegExp(`(\d+)\s+${itemName}`): the tokens that end with digits and that
\* the item name follows
NumberRegexAt(text, itemName) ==
    {i \in 1..(Len(text) - 1) :
        /\ TrailingDigits(Spell[text[i]]) # <<>>
        /\ IsPrefix(Join(itemName), Join(SubSeq(text, i + 1, Len(text))))}

\* split(' ') of a character sequence
RECURSIVE SplitBlank(_, _)
SplitBlank(cs, cur) ==
    IF cs = <<>> THEN <<cur>>
    ELSE IF Head(cs) = " " THEN <<cur>> \o SplitBlank(Tail(cs), <<>>)
    ELSE SplitBlank(Tail(cs), Append(cur, Head(cs)))

\* replace(/[^\w]/g, '')
RECURSIVE CleanWord(_)
CleanWord(cs) ==
    IF cs = <<>> THEN <<>>
    ELSE IF IsWordChar(Head(cs)) THEN <<Head(cs)>> \o CleanWord(Tail(cs))
    ELSE CleanWord(Tail(cs))

Reverse(s) == [i \in DOMAIN s |-> s[Len(s) + 1 - i]]

\* String.prototype.indexOf, for a needle the text includes
IndexOf(hay, needle) ==
    FirstOf({i \in 0..(Len(hay) - Len(needle)) : SubSeq(hay, i + 1, i + Len(needle)) = needle})
\* line 192: lowerTranscript.split(itemName)[0].split(' ')
WordsBefore(hay, needle) == SplitBlank(SubSeq(hay, 1, IndexOf(hay, needle)), <<>>)
\* slice(-3)
LastThree(words) == SubSeq(words, IF Len(words) > 3 THEN Len(words) - 2 ELSE 1, Len(words))
\* quantityWords[cleanWord]: the entries with that key
EntriesOf(cleanWord) ==
    {k \in DOMAIN quantityWords : Spell[quantityWords[k][1]] = cleanWord}
\* lines 195-201: the first of the words, in this order, that is a quantity word
FirstQuantity(lastWords, found) ==
    IF found # {}
    THEN quantityWords[FirstOf(EntriesOf(CleanWord(lastWords[FirstOf(found)])))][2]
    ELSE Num(1)
WordQuantity(lastWords) ==
    FirstQuantity(lastWords, {j \in DOMAIN lastWords : EntriesOf(CleanWord(lastWords[j])) # {}})
\* lines 186-189: the digits of numberMatch[0]
NumberQuantity(tok) == Num(DigitsValue(TrailingDigits(Spell[tok]), 0))

\* the quantity of an added item: the number before it, else a quantity word
\* among the last three pieces of the text before it, else 1
AddQuantity(text, itemName) ==
    IF NumberRegexAt(text, itemName) # {}
    THEN NumberQuantity(text[FirstOf(NumberRegexAt(text, itemName))])
    ELSE WordQuantity(Reverse(LastThree(WordsBefore(Join(text), Join(itemName)))))

\* what the forEach over the food items pushes for one item
Mention(text, id, itemName) ==
    IF RemovePatternAt(text, itemName) # {}
    THEN [op |-> "remove", id |-> id, quantity |-> RemoveQuantity(text, itemName)]
    ELSE IF Includes(text, itemName)
    THEN [op |-> "add", id |-> id, quantity |-> AddQuantity(text, itemName)]
    ELSE [op |-> "none", id |-> id, quantity |-> Undefined]
ItemMention(text, item) == Mention(text, item.id, Normalize(item.name))

IsAdd(m) == m.op = "add"
IsRemove(m) == m.op = "remove"

\* lines 136-141
Commands(lowerTranscript) ==
    [ goToCart |-> \/ Includes(lowerTranscript, <<"go", "to", "cart">>)
                   \/ Includes(lowerTranscript, <<"show", "cart">>)
                   \/ Includes(lowerTranscript, <<"view", "cart">>),
      cancelOrder |-> \/ Includes(lowerTranscript, <<"cancel", "order">>)
                      \/ Includes(lowerTranscript, <<"clear", "cart">>)
                      \/ Includes(lowerTranscript, <<"reset", "order">>),
      addMore |-> \/ Includes(lowerTranscript, <<"add", "more">>)
                  \/ Includes(lowerTranscript, <<"go", "back">>)
                  \/ Includes(lowerTranscript, <<"back", "to", "menu">>),
      placeOrder |-> \/ Includes(lowerTranscript, <<"place", "order">>)
                     \/ Includes(lowerTranscript, <<"confirm", "order">>)
                     \/ Includes(lowerTranscript, <<"checkout">>) ]
\* lines 152-206
Mentions(lowerTranscript, foodItems) ==
    [i \in DOMAIN foodItems |-> ItemMention(lowerTranscript, foodItems[i])]
\* lines 208-212
Result(mentions, commands) ==
    [ addItems |-> SelectSeq(mentions, IsAdd),
      removeItems |-> SelectSeq(mentions, IsRemove),
      commands |-> commands ]
ParseLower(lowerTranscript, foodItems) ==
    Result(Mentions(lowerTranscript, foodItems), Commands(lowerTranscript))

parseVoiceTranscript(transcript, foodItems) == ParseLower(Normalize(transcript), foodItems)

(***************************************************************************)
(* Inputs: the transcripts the speech recogniser delivers to the           *)
(* VoiceAssistant, and the texts handed to the Index page.                 *)
(***************************************************************************)
Utterances ==
    { <<"Start", "recording">>,
      <<"stop", "recording">>,
      <<"2", "samosa">>,
      <<"zero", "samosa">>,
      <<"remove", "1", "samosa">>,
      <<"mango", "lassi", ".", "reset">>,
      <<"stop", "recording", ".", "mango", "lassi">>,
      <<"Samosa", ".", "start", "recording">> }
\* the transcripts of OrderSpec: several operations in one transcript,
\* contradictory toggles, a command phrase with an order in one clause
OrderUtterances ==
    { <<"2", "samosa", ".", "remove", "1", "samosa">>,
      <<"samosa", ".", "2", "samosa">>,
      <<"remove", "samosa">>,
      <<"3", "gulab", "jamun">>,
      <<"remove", "1", "gulab", "jamun">>,
      <<"stop", "recording", ".", "start", "recording">>,
      <<"go", "to", "cart", ".", "back", "to", "menu">>,
      <<"add", "2", "samosa", "go", "to", "cart">> }
\* the transcripts of MenuSpec: item texts the catalog does not resolve,
\* texts without a command, quantities in words and with suffixes
MenuUtterances ==
    { <<"xyzfood", ".", "2", "samosa">>,
      <<"3">>,
      <<".">>,
      <<"2", "idli", "3", "mango", "lassi">>,
      <<"paneer", "tikka">>,
      <<"remove", "chicken", "tikka">>,
      <<"2nd", "samosa">>,
      <<"twenty-one", "samosa">>,
      <<"twenty", "one", "samosa">>,
      <<"go", "to", "cart">> }
\* the transcripts of GrowSpec: the recogniser's transcript grows while the
\* customer goes on speaking
GrowUtterances ==
    { <<"samosa">>,
      <<"samosa", ".", "mango", "lassi">>,
      <<"samosa", ".", "mango", "lassi", ".", "remove", "1", "samosa">>,
      <<"start", "recording">>,
      <<"start", "recording", ".", "stop", "recording">>,
      <<"start", "recording", ".", "stop", "recording", ".", "samosa">> }
PageUtterances ==
    { <<"2", "samosa">>,
      <<"cancel", "order">>,
      <<"remove", "1", "samosa">>,
      <<"remove", "samosa">>,
      <<"half", "samosa">> }

(***************************************************************************)
(* State.                                                                  *)
(***************************************************************************)
VARIABLES
    heap,                       \* the CartItem objects: heap[r] = [id, quantity]
    isInitialized,              \* VoiceAssistant state (lines 234-264)
    transcript,
    isListening,
    shouldResetTranscript,      \* TRUE: the 1500 ms reset timeout is pending
    lastProcessedTranscript,    \* lastProcessedTranscriptRef.current
    cart,                       \* array of references into heap
    showCart,
    statusMessage,
    cartItems,                  \* Index state (Index.tsx lines 11-14)
    pageTranscript,
    voiceState,
    currentView,
    timers,                     \* Index's pending 1000 ms timeouts, oldest first
    runs,                       \* history: the runs of the transcript effect it caused
    snapshot,                   \* history: the array the last reconciliation was given
    tapped                      \* history: the item of the menu card the last handler was a tap on

vars == <<heap, isInitialized, transcript, isListening, shouldResetTranscript,
          lastProcessedTranscript, cart, showCart, statusMessage, cartItems,
          pageTranscript, voiceState, currentView, timers, runs, snapshot, tapped>>

Message(text, quantity, id, fragment) ==
    [text |-> text, quantity |-> quantity, id |-> id, fragment |-> fragment]
Say(text) == Message(text, Undefined, NoMenuItem, <<>>)

\* the entries (id, quantity) an array of references shows
Values(h, arr) == [i \in DOMAIN arr |-> h[arr[i]]]
\* Array.prototype.findIndex by id, 0 for JavaScript's -1
findIndex(h, arr, id) ==
    LET hits == {i \in DOMAIN arr : h[arr[i]].id = id}
    IN  IF hits = {} THEN 0 ELSE FirstOf(hits)
\* Array.prototype.filter(item => item.id !== id)
filterOut(h, arr, id) == SelectSeq(arr, LAMBDA r : h[r].id # id)

(***************************************************************************)
(* The VoiceAssistant's setCart updaters.  Each returns the heap with the  *)
(* objects it created and the array it returns.                            *)
(***************************************************************************)
\* A variant that moves the entry it updates to the end of the cart: with it
\* C37 fails.
AddItemUpdaterMovesLast(h, prevCart, id, quantity) ==
    LET existingItemIndex == findIndex(h, prevCart, id)
    IN  IF existingItemIndex >= 1
        THEN LET existingItem == h[prevCart[existingItemIndex]]
                 updatedItem == [existingItem EXCEPT !.quantity = existingItem.quantity + quantity]
             IN  [heap |-> Append(h, updatedItem),
                  cart |-> Append(filterOut(h, prevCart, id), Len(h) + 1)]
        ELSE [heap |-> Append(h, [id |-> id, quantity |-> quantity]),
              cart |-> Append(prevCart, Len(h) + 1)]

\* A variant that never looks for the item in the cart: with it C2 fails.
AddItemUpdaterAppends(h, prevCart, id, quantity) ==
    [heap |-> Append(h, [id |-> id, quantity |-> quantity]),
     cart |-> Append(prevCart, Len(h) + 1)]

\* A variant that adds one of the item whatever the quantity: with it C17 fails.
AddItemUpdaterOne(h, prevCart, id, quantity) ==
    LET existingItemIndex == findIndex(h, prevCart, id)
    IN  IF existingItemIndex >= 1
        THEN LET existingItem == h[prevCart[existingItemIndex]]
                 updatedItem == [existingItem EXCEPT !.quantity = existingItem.quantity + Num(1)]
             IN  [heap |-> Append(h, updatedItem),
                  cart |-> [prevCart EXCEPT ![existingItemIndex] = Len(h) + 1]]
        ELSE [heap |-> Append(h, [id |-> id, quantity |-> Num(1)]),
              cart |-> Append(prevCart, Len(h) + 1)]

\* A variant that overwrites the quantity of an entry the cart holds: with it
\* C18 fails.
AddItemUpdaterReplaces(h, prevCart, id, quantity) ==
    LET existingItemIndex == findIndex(h, prevCart, id)
    IN  IF existingItemIndex >= 1
        THEN LET existingItem == h[prevCart[existingItemIndex]]
                 updatedItem == [existingItem EXCEPT !.quantity = quantity]
             IN  [heap |-> Append(h, updatedItem),
                  cart |-> [prevCart EXCEPT ![existingItemIndex] = Len(h) + 1]]
        ELSE [heap |-> Append(h, [id |-> id, quantity |-> quantity]),
              cart |-> Append(prevCart, Len(h) + 1)]

AddItemUpdater(h, prevCart, id, quantity) ==
    LET existingItemIndex == findIndex(h, prevCart, id)
    IN  IF existingItemIndex >= 1
        THEN LET existingItem == h[prevCart[existingItemIndex]]
                 updatedItem == [existingItem EXCEPT !.quantity = existingItem.quantity + quantity]
             IN  [heap |-> Append(h, updatedItem),
                  cart |-> [prevCart EXCEPT ![existingItemIndex] = Len(h) + 1]]
        ELSE [heap |-> Append(h, [id |-> id, quantity |-> quantity]),
              cart |-> Append(prevCart, Len(h) + 1)]

\* A variant that removes at the index findIndex returned without testing
\* it, as splice(-1, 1) does, and so drops the last entry when the item is
\* absent: with it C21 fails.
RemoveItemUpdaterSplices(h, prevCart, id, quantity) ==
    LET existingItemIndex == findIndex(h, prevCart, id)
    IN  IF existingItemIndex >= 1
        THEN LET existingItem == h[prevCart[existingItemIndex]]
                 newQuantity == existingItem.quantity - quantity
                 removed == [heap |-> h, cart |-> filterOut(h, prevCart, id), same |-> FALSE]
             IN  IF quantity # Undefined
                 THEN IF newQuantity <= 0
                      THEN removed
                      ELSE [heap |-> Append(h, [existingItem EXCEPT !.quantity = newQuantity]),
                            cart |-> [prevCart EXCEPT ![existingItemIndex] = Len(h) + 1],
                            same |-> FALSE]
                 ELSE removed
        ELSE [heap |-> h, cart |-> SubSeq(prevCart, 1, Len(prevCart) - 1), same |-> FALSE]

\* A variant that takes a missing quantity for one: with it C19 fails.
RemoveItemUpdaterDecrements(h, prevCart, id, quantity) ==
    LET existingItemIndex == findIndex(h, prevCart, id)
    IN  IF existingItemIndex >= 1
        THEN LET existingItem == h[prevCart[existingItemIndex]]
                 newQuantity == existingItem.quantity
                                    - (IF quantity # Undefined THEN quantity ELSE Num(1))
             IN  IF newQuantity <= 0
                 THEN [heap |-> h, cart |-> filterOut(h, prevCart, id), same |-> FALSE]
                 ELSE [heap |-> Append(h, [existingItem EXCEPT !.quantity = newQuantity]),
                       cart |-> [prevCart EXCEPT ![existingItemIndex] = Len(h) + 1],
                       same |-> FALSE]
        ELSE [heap |-> h, cart |-> prevCart, same |-> TRUE]

\* A variant that deletes the entry only below zero: with it C20 fails.
RemoveItemUpdaterKeepsZero(h, prevCart, id, quantity) ==
    LET existingItemIndex == findIndex(h, prevCart, id)
    IN  IF existingItemIndex >= 1
        THEN LET existingItem == h[prevCart[existingItemIndex]]
                 newQuantity == existingItem.quantity - quantity
                 removed == [heap |-> h, cart |-> filterOut(h, prevCart, id), same |-> FALSE]
             IN  IF quantity # Undefined
                 THEN IF newQuantity < 0
                      THEN removed
                      ELSE [heap |-> Append(h, [existingItem EXCEPT !.quantity = newQuantity]),
                            cart |-> [prevCart EXCEPT ![existingItemIndex] = Len(h) + 1],
                            same |-> FALSE]
                 ELSE removed
        ELSE [heap |-> h, cart |-> prevCart, same |-> TRUE]

RemoveItemUpdater(h, prevCart, id, quantity) ==
    LET existingItemIndex == findIndex(h, prevCart, id)
    IN  IF existingItemIndex >= 1
        THEN LET existingItem == h[prevCart[existingItemIndex]]
                 newQuantity == existingItem.quantity - quantity
                 removed == [heap |-> h, cart |-> filterOut(h, prevCart, id), same |-> FALSE]
             IN  IF quantity # Undefined
                 THEN IF newQuantity <= 0
                      THEN removed
                      ELSE [heap |-> Append(h, [existingItem EXCEPT !.quantity = newQuantity]),
                            cart |-> [prevCart EXCEPT ![existingItemIndex] = Len(h) + 1],
                            same |-> FALSE]
                 ELSE removed
        ELSE [heap |-> h, cart |-> prevCart, same |-> TRUE]

(***************************************************************************)
(* The transcript effect (lines 351-477) on a record v of the component's  *)
(* state.  v.cartSet: setCart was given a new array; v.updated: a setCart  *)
(* updater ran.                                                            *)
(***************************************************************************)
\* A variant that empties the cart when the capture stops: with it C38 fails.
StopRecordingClears(v) ==
    [v EXCEPT !.isListening = FALSE, !.cart = <<>>, !.cartSet = TRUE,
              !.statusMessage = Say("Recording stopped. Say start recording to begin again."),
              !.shouldResetTranscript = TRUE]

\* lines 378-383
StopRecording(v) ==
    [v EXCEPT !.isListening = FALSE,
              !.statusMessage = Say("Recording stopped. Say start recording to begin again."),
              !.shouldResetTranscript = TRUE]

\* A variant that leaves the cart as it is: with it C8 fails.
ResetCartKeeps(v) == [v EXCEPT !.statusMessage = Say("Cart has been cleared.")]

\* lines 459-462
ResetCart(v) ==
    [v EXCEPT !.cart = <<>>, !.cartSet = TRUE,
              !.statusMessage = Say("Cart has been cleared.")]

NotFound(v, command) ==
    [v EXCEPT !.statusMessage = Message("not found in menu", Undefined, NoMenuItem, command.item)]

\* lines 384-414
Added(v, command, menuItem, r) ==
    [v EXCEPT !.heap = r.heap, !.cart = r.cart, !.cartSet = TRUE, !.updated = TRUE,
              !.statusMessage = Message("Added", command.quantity, menuItem, <<>>)]
\* A variant that adds whatever findMenuItem returned: with it C24 fails.
AddItemUnchecked(v, command, menuItem) ==
    Added(v, command, menuItem, AddItemUpdater(v.heap, v.cart, menuItem, command.quantity))

AddItem(v, command, menuItem) ==
    IF menuItem # NoMenuItem
    THEN Added(v, command, menuItem, AddItemUpdater(v.heap, v.cart, menuItem, command.quantity))
    ELSE NotFound(v, command)

\* lines 415-458
Removed(v, command, menuItem, r) ==
    [v EXCEPT !.heap = r.heap, !.cart = r.cart,
              !.cartSet = v.cartSet \/ ~r.same,
              !.updated = TRUE,
              !.statusMessage =
                    IF command.quantity # Undefined
                    THEN Message("Removed", command.quantity, menuItem, <<>>)
                    ELSE Message("Removed all", Undefined, menuItem, <<>>)]
RemoveItem(v, command, menuItem) ==
    IF menuItem # NoMenuItem
    THEN Removed(v, command, menuItem,
                 RemoveItemUpdater(v.heap, v.cart, menuItem, command.quantity))
    ELSE NotFound(v, command)

\* lines 374-474: the switch on command.type
ApplyCommand(v, command) ==
    CASE command.type = "START_RECORDING" -> v
      [] command.type = "STOP_RECORDING" -> StopRecording(v)
      [] command.type = "ADD_ITEM" ->
            AddItem(v, command, findMenuItem(command.item, mockFoodItems))
      [] command.type = "REMOVE_ITEM" ->
            RemoveItem(v, command, findMenuItem(command.item, mockFoodItems))
      [] command.type = "RESET_CART" -> ResetCart(v)
      [] command.type = "VIEW_CART" ->
            [v EXCEPT !.showCart = TRUE, !.statusMessage = Say("Viewing cart.")]
      [] command.type = "BACK_TO_MENU" ->
            [v EXCEPT !.showCart = FALSE,
                      !.statusMessage = Say("Back to menu. Say go to cart to view your order.")]
      [] command.type = "UNKNOWN" ->
            [v EXCEPT !.statusMessage = Say("Command not recognized. Please try again.")]

\* A variant in which every command works on the cart of the render, so that
\* the last one stands alone: with it C13 fails.
ApplyCommandsStale(v, commands) ==
    IF commands = <<>> THEN v ELSE ApplyCommand(v, commands[Len(commands)])

\* for (const command of commands) switch ...
RECURSIVE ApplyCommands(_, _)
ApplyCommands(v, commands) ==
    IF commands = <<>> THEN v
    ELSE ApplyCommands(ApplyCommand(v, Head(commands)), Tail(commands))

\* A variant without the guard: with it C4 fails.
IsDuplicateNever(v) == FALSE

\* line 355: the idempotency guard
IsDuplicate(v) == v.transcript = v.lastProcessedTranscript

\* A variant that does not record the transcript in the guard: with it C7 fails.
MarkProcessedNot(v) == v

\* line 356
MarkProcessed(v) == [v EXCEPT !.lastProcessedTranscript = v.transcript]

\* A variant that takes any transcript for a start phrase: with it C3 fails.
IsSpokenStartAny(v) == ~v.isListening

\* line 360: the spoken start, honoured while idle
IsSpokenStart(v) ==
    Includes(Normalize(v.transcript), <<"start", "recording">>) /\ ~v.isListening

\* lines 361-362
StartListening(v) ==
    [v EXCEPT !.isListening = TRUE,
              !.statusMessage = Say("Now actively listening for commands...")]

\* One record of the history of effect runs: whether the transcript was the
\* one in the guard, what the run did, and whether it changed cart or listening.
Run(v, outcome, w) ==
    [ again |-> v.transcript = v.lastProcessedTranscript,
      outcome |-> outcome,
      changed |-> \/ Values(w.heap, w.cart) # Values(v.heap, v.cart)
                  \/ w.isListening # v.isListening ]
Recorded(v, outcome, w) == [w EXCEPT !.runs = Append(@, Run(v, outcome, w))]

\* lines 351-477: one run of the transcript effect
ProcessTranscriptEffect(v) ==
    IF v.transcript = <<>> \/ ~v.isInitialized THEN v
    ELSE IF IsDuplicate(v) THEN Recorded(v, "duplicate", v)
    ELSE IF IsSpokenStart(v) THEN Recorded(v, "start", StartListening(MarkProcessed(v)))
    ELSE IF v.isListening
    THEN Recorded(v, "applied", ApplyCommands(MarkProcessed(v), parseCommand(v.transcript)))
    ELSE Recorded(v, "ignored", MarkProcessed(v))

\* the effect's dependency array [transcript, isListening, menuItems, isInitialized]
DepsChanged(a, b) ==
    \/ a.transcript # b.transcript
    \/ a.isListening # b.isListening
    \/ a.isInitialized # b.isInitialized

\* The renders a handler causes: the effect runs after every render that
\* changed a dependency, and a state change it makes causes the next render.
RECURSIVE Renders(_, _, _)
Renders(prev, cur, n) ==
    IF n = 0 \/ ~DepsChanged(prev, cur) THEN cur
    ELSE Renders(cur, ProcessTranscriptEffect(cur), n - 1)
Settle(prev, cur) == Renders(prev, cur, MaxRenders)

(***************************************************************************)
(* Index.processTranscript (Index.tsx lines 40-79): newCartItems is a      *)
(* shallow copy, and the quantities are written into the shared objects.   *)
(***************************************************************************)
Max(a, b) == IF a >= b THEN a ELSE b

RECURSIVE AddEach(_, _, _)
AddEach(h, newCartItems, addItems) ==
    IF addItems = <<>> THEN [heap |-> h, cart |-> newCartItems]
    ELSE LET a == Head(addItems)
             existingIndex == findIndex(h, newCartItems, a.id)
         IN  IF existingIndex >= 1
             THEN AddEach([h EXCEPT ![newCartItems[existingIndex]].quantity = @ + a.quantity],
                          newCartItems, Tail(addItems))
             ELSE AddEach(Append(h, [id |-> a.id, quantity |-> a.quantity]),
                          Append(newCartItems, Len(h) + 1), Tail(addItems))

SpliceOut(arr, i) == SubSeq(arr, 1, i - 1) \o SubSeq(arr, i + 1, Len(arr))

RECURSIVE RemoveEach(_, _, _)
RemoveEach(h, newCartItems, removeItems) ==
    IF removeItems = <<>> THEN [heap |-> h, cart |-> newCartItems]
    ELSE LET a == Head(removeItems)
             existingIndex == findIndex(h, newCartItems, a.id)
             h1 == [h EXCEPT ![newCartItems[existingIndex]].quantity = Max(0, @ - a.quantity)]
         IN  IF existingIndex >= 1
             THEN IF h1[newCartItems[existingIndex]].quantity = 0
                  THEN RemoveEach(h1, SpliceOut(newCartItems, existingIndex), Tail(removeItems))
                  ELSE RemoveEach(h1, newCartItems, Tail(removeItems))
             ELSE RemoveEach(h, newCartItems, Tail(removeItems))

Last(s) == s[Len(s)]

\* lines 66-78.  The function's state setters are batched: of the values it
\* hands to setCartItems (lines 71 and 77), the last one stands.
ProcessCommands(removed, commands, view) ==
    [ heap |-> removed.heap,
      cartItems |-> Last((IF commands.cancelOrder THEN << <<>> >> ELSE <<>>)
                            \o <<removed.cart>>),
      currentView |-> Last(<<view>>
                            \o (IF commands.goToCart THEN <<"cart">> ELSE <<>>)
                            \o (IF commands.addMore THEN <<"menu">> ELSE <<>>)) ]
\* lines 56-64
RemoveItems(added, removeItems) == RemoveEach(added.heap, added.cart, removeItems)
\* lines 43-78, on the parser's result
ProcessResult(h, result, closureCartItems, view) ==
    ProcessCommands(RemoveItems(AddEach(h, closureCartItems, result.addItems),
                                result.removeItems),
                    result.commands, view)
processTranscript(h, textToProcess, closureCartItems, view) ==
    ProcessResult(h, parseVoiceTranscript(textToProcess, mockFoodItems),
                  closureCartItems, view)

(***************************************************************************)
(* Committing a handler's result: unreachable objects are dropped and the  *)
(* live ones renumbered in the order the arrays reach them, so that equal  *)
(* object graphs are equal states.                                         *)
(***************************************************************************)
RECURSIVE Dedup(_, _)
Dedup(s, acc) ==
    IF s = <<>> THEN acc
    ELSE IF \E i \in DOMAIN acc : acc[i] = Head(s) THEN Dedup(Tail(s), acc)
    ELSE Dedup(Tail(s), Append(acc, Head(s)))

RECURSIVE TimerRefs(_)
TimerRefs(tm) == IF tm = <<>> THEN <<>> ELSE Head(tm).cartItems \o TimerRefs(Tail(tm))

QuantitiesBounded(h) == \A r \in DOMAIN h : h[r].quantity <= Num(MaxQty)

Commit(h, c, ci, tm, sn) ==
    \E order \in {Dedup(c \o ci \o TimerRefs(tm) \o sn.refs, <<>>)} :
        LET new(r) == CHOOSE i \in DOMAIN order : order[i] = r
            Ren(arr) == [i \in DOMAIN arr |-> new(arr[i])]
        IN  /\ QuantitiesBounded([i \in DOMAIN order |-> h[order[i]]])
            /\ heap' = [i \in DOMAIN order |-> h[order[i]]]
            /\ cart' = Ren(c)
            /\ cartItems' = Ren(ci)
            /\ timers' = [i \in DOMAIN tm |-> [tm[i] EXCEPT !.cartItems = Ren(@)]]
            /\ snapshot' = [sn EXCEPT !.refs = Ren(@)]

Snapshot(h, arr) == [refs |-> arr, vals |-> Values(h, arr)]

\* the VoiceAssistant's state as a record, before a handler runs
VAState ==
    [ heap |-> heap, isInitialized |-> isInitialized, transcript |-> transcript,
      isListening |-> isListening, shouldResetTranscript |-> shouldResetTranscript,
      lastProcessedTranscript |-> lastProcessedTranscript, cart |-> cart,
      showCart |-> showCart, statusMessage |-> statusMessage,
      cartSet |-> FALSE, updated |-> FALSE, runs |-> <<>>, tapped |-> NoMenuItem ]

\* The state after a VoiceAssistant handler and the renders it caused.  The
\* effect of lines 480-484 hands a new cart array to onCartUpdate, which is
\* Index's setCartItems (Index.tsx line 139).
VACommit(v) ==
    /\ isInitialized' = v.isInitialized
    /\ transcript' = v.transcript
    /\ isListening' = v.isListening
    /\ shouldResetTranscript' = v.shouldResetTranscript
    /\ lastProcessedTranscript' = v.lastProcessedTranscript
    /\ showCart' = v.showCart
    /\ statusMessage' = v.statusMessage
    /\ runs' = v.runs
    /\ tapped' = v.tapped
    /\ UNCHANGED <<pageTranscript, voiceState, currentView>>
    /\ Commit(v.heap, v.cart, IF v.cartSet THEN v.cart ELSE cartItems, timers,
              IF v.updated THEN Snapshot(heap, cart) ELSE snapshot)

(***************************************************************************)
(* The VoiceAssistant's handlers.                                          *)
(***************************************************************************)
\* lines 281-327: the mount effect's startListening resolves
Initialize ==
    /\ ~isInitialized
    /\ LET cur == [VAState EXCEPT !.isInitialized = TRUE,
                                  !.statusMessage = Say("Passive listening active.")]
       IN  \E v \in {Settle(VAState, cur)} : VACommit(v)

\* lines 330-334: the recogniser's transcript changes
Deliver(t) ==
    LET cur == [VAState EXCEPT !.transcript = t]
    IN  \E v \in {Settle(VAState, cur)} : VACommit(v)

\* lines 337-348: the reset timeout fires
ResetTimer ==
    /\ shouldResetTranscript
    /\ LET cur == [VAState EXCEPT !.transcript = <<>>,
                                  !.lastProcessedTranscript = <<>>,
                                  !.shouldResetTranscript = FALSE]
       IN  \E v \in {Settle(VAState, cur)} : VACommit(v)

\* lines 510-523
toggleRecording ==
    LET cur == IF isListening
               THEN [VAState EXCEPT !.isListening = FALSE,
                                    !.statusMessage = Say("Recording stopped."),
                                    !.shouldResetTranscript = TRUE]
               ELSE [VAState EXCEPT !.isListening = TRUE,
                                    !.statusMessage = Say("Listening for commands..."),
                                    !.lastProcessedTranscript = <<>>]
    IN  \E v \in {Settle(VAState, cur)} : VACommit(v)

\* lines 526-529
handleResetOrder ==
    LET cur == [VAState EXCEPT !.cart = <<>>, !.cartSet = TRUE,
                               !.statusMessage = Say("Order has been reset.")]
    IN  \E v \in {Settle(VAState, cur)} : VACommit(v)

\* unnamed/part_003 lines 274-302: a tap on a menu card adds one of the item
handleItemClick(item) ==
    \E r \in {AddItemUpdater(heap, cart, item.id, Num(1))} :
        LET cur == [VAState EXCEPT !.heap = r.heap, !.cart = r.cart, !.cartSet = TRUE,
                                   !.updated = TRUE, !.tapped = item.id,
                                   !.statusMessage = Message("Added to cart", Undefined, item.id, <<>>)]
        IN  \E v \in {Settle(VAState, cur)} : VACommit(v)

(***************************************************************************)
(* The Index page's handlers.                                              *)
(***************************************************************************)
Timer(kind, text, closureCartItems, closureTranscript) ==
    [kind |-> kind, text |-> text, cartItems |-> closureCartItems,
     transcript |-> closureTranscript]

\* Index.tsx lines 27-38: the timeout's callback closes over this render's
\* processTranscript, that is over this render's cartItems and transcript
handleTranscriptChange(newTranscript) ==
    /\ Len(timers) < MaxTimers
    /\ pageTranscript' = newTranscript
    /\ timers' = IF newTranscript # <<>>
                 THEN Append(timers, Timer("process", newTranscript, cartItems, pageTranscript))
                 ELSE timers
    /\ runs' = <<>>
    /\ tapped' = NoMenuItem
    /\ UNCHANGED <<heap, isInitialized, transcript, isListening, shouldResetTranscript,
                   lastProcessedTranscript, cart, showCart, statusMessage, cartItems,
                   voiceState, currentView, snapshot>>

\* Index.tsx lines 32-34: the oldest timeout fires and calls processTranscript
ProcessTimer ==
    /\ timers # <<>>
    /\ Head(timers).kind = "process"
    /\ \E t \in {Head(timers)} :
       \E r \in {processTranscript(heap, IF t.text # <<>> THEN t.text ELSE t.transcript,
                                   t.cartItems, currentView)} :
           /\ Commit(r.heap, cart, r.cartItems, Tail(timers), Snapshot(heap, t.cartItems))
           /\ currentView' = r.currentView
           /\ pageTranscript' = <<>>
    /\ runs' = <<>>
    /\ tapped' = NoMenuItem
    /\ UNCHANGED <<isInitialized, transcript, isListening, shouldResetTranscript,
                   lastProcessedTranscript, showCart, statusMessage, voiceState>>

\* Index.tsx line 20: the timeout of a stop fires
IdleTimer ==
    /\ timers # <<>>
    /\ Head(timers).kind = "idle"
    /\ voiceState' = "idle"
    /\ runs' = <<>>
    /\ tapped' = NoMenuItem
    /\ Commit(heap, cart, cartItems, Tail(timers), snapshot)
    /\ UNCHANGED <<isInitialized, transcript, isListening, shouldResetTranscript,
                   lastProcessedTranscript, showCart, statusMessage, pageTranscript,
                   currentView>>

\* Index.tsx lines 16-24
handleVoiceToggle ==
    IF voiceState = "listening"
    THEN /\ Len(timers) < MaxTimers
         /\ \E r \in {processTranscript(heap, pageTranscript, cartItems, currentView)} :
                /\ Commit(r.heap, cart, r.cartItems,
                          Append(timers, Timer("idle", <<>>, <<>>, <<>>)),
                          Snapshot(heap, cartItems))
                /\ currentView' = r.currentView
         /\ voiceState' = "processing"
         /\ pageTranscript' = <<>>
         /\ runs' = <<>>
         /\ tapped' = NoMenuItem
         /\ UNCHANGED <<isInitialized, transcript, isListening, shouldResetTranscript,
                        lastProcessedTranscript, showCart, statusMessage>>
    ELSE /\ voiceState' = "listening"
         /\ runs' = <<>>
         /\ tapped' = NoMenuItem
         /\ UNCHANGED <<heap, isInitialized, transcript, isListening, shouldResetTranscript,
                        lastProcessedTranscript, cart, showCart, statusMessage, cartItems,
                        pageTranscript, currentView, timers, snapshot>>

\* Index.tsx lines 130 and 146: the page's Cart's Reset Order button
onResetOrder ==
    /\ runs' = <<>>
    /\ tapped' = NoMenuItem
    /\ Commit(heap, cart, <<>>, timers, snapshot)
    /\ UNCHANGED <<isInitialized, transcript, isListening, shouldResetTranscript,
                   lastProcessedTranscript, showCart, statusMessage, pageTranscript,
                   voiceState, currentView>>

\* Index.tsx line 126 with MenuGrid.tsx lines 16-23: a tap on a card of the
\* page's menu grid calls onItemClick?.(item), and the page hands the grid no
\* onItemClick: no state is set.  The grid is rendered in the menu view.
MenuGridClick(item) ==
    /\ currentView = "menu"
    /\ runs' = <<>>
    /\ tapped' = item.id
    /\ Commit(heap, cart, cartItems, timers, Snapshot(heap, cart))
    /\ UNCHANGED <<isInitialized, transcript, isListening, shouldResetTranscript,
                   lastProcessedTranscript, showCart, statusMessage, pageTranscript,
                   voiceState, currentView>>

(***************************************************************************)
(* The specification.                                                      *)
(***************************************************************************)
Init ==
    /\ heap = <<>>
    /\ isInitialized = FALSE
    /\ transcript = <<>>
    /\ isListening = FALSE
    /\ shouldResetTranscript = FALSE
    /\ lastProcessedTranscript = <<>>
    /\ cart = <<>>
    /\ showCart = FALSE
    /\ statusMessage = Say("Say start recording to begin")
    /\ cartItems = <<>>
    /\ pageTranscript = <<>>
    /\ voiceState = "idle"
    /\ currentView = "menu"
    /\ timers = <<>>
    /\ runs = <<>>
    /\ snapshot = Snapshot(<<>>, <<>>)
    /\ tapped = NoMenuItem

\* the items whose cards are tapped
ClickItems == {m \in Range(mockFoodItems) : m.id = 5}

Next ==
    \/ Initialize
    \/ \E t \in Utterances : Deliver(t)
    \/ ResetTimer
    \/ toggleRecording
    \/ handleResetOrder
    \/ \E item \in ClickItems : handleItemClick(item)

Spec == Init /\ [][Next]_vars

\* The Index page on its own
IndexNext ==
    \/ \E t \in PageUtterances : handleTranscriptChange(t)
    \/ ProcessTimer
    \/ IdleTimer
    \/ handleVoiceToggle
    \/ onResetOrder

IndexSpec == Init /\ [][IndexNext]_vars

\* The session: the VoiceAssistant with the page's Cart beside it (Index.tsx
\* lines 137-149), whose Reset Order button writes the page's cartItems
SessionUtterances ==
    { <<"2", "samosa">>,
      <<"remove", "1", "samosa">> }

SessionNext ==
    \/ Initialize
    \/ \E t \in SessionUtterances : Deliver(t)
    \/ toggleRecording
    \/ handleResetOrder
    \/ onResetOrder

SessionSpec == Init /\ [][SessionNext]_vars

\* The VoiceAssistant taking orders
OrderNext ==
    \/ Initialize
    \/ \E t \in OrderUtterances : Deliver(t)
    \/ ResetTimer
    \/ toggleRecording

OrderSpec == Init /\ [][OrderNext]_vars

\* The VoiceAssistant resolving what it hears against the menu
MenuNext ==
    \/ Initialize
    \/ \E t \in MenuUtterances : Deliver(t)
    \/ ResetTimer
    \/ toggleRecording

MenuSpec == Init /\ [][MenuNext]_vars

\* The menu cards: the VoiceAssistant taking orders by voice and by taps on
\* the cards of its grid (unnamed/part_003 lines 443-446), beside the page's grid
GridItems == {m \in Range(mockFoodItems) : m.id \in {1, 5}}

GridNext ==
    \/ Initialize
    \/ \E t \in SessionUtterances : Deliver(t)
    \/ toggleRecording
    \/ \E item \in GridItems : handleItemClick(item)
    \/ \E item \in GridItems : MenuGridClick(item)

GridSpec == Init /\ [][GridNext]_vars

\* The VoiceAssistant hearing one utterance grow
GrowNext ==
    \/ Initialize
    \/ \E t \in GrowUtterances : Deliver(t)
    \/ ResetTimer
    \/ toggleRecording

GrowSpec == Init /\ [][GrowNext]_vars


(***************************************************************************)
(* Properties.                                                             *)
(***************************************************************************)
NoSharedId(h, arr) == \A i, j \in DOMAIN arr : i # j => h[arr[i]].id # h[arr[j]].id
\* the cart (ids and quantities) the commands leave when applied to state v
CartAfter(v, commands) == Values(ApplyCommands(v, commands).heap, ApplyCommands(v, commands).cart)
Positions(commands, type) == {i \in DOMAIN commands : commands[i].type = type}
LastOf(S) == CHOOSE i \in S : \A j \in S : j <= i
\* this step is the delivery of the transcript t
Delivered(t) == transcript' = t /\ Deliver(t)
\* this step is the delivery of t, and t is parsed and its commands are applied
IsApplied(t) == isListening /\ isInitialized /\ t # transcript /\ Delivered(t)

\* C1: every entry of the VoiceAssistant's cart has a quantity of at least 1,
\* whatever transcripts and manual actions came before.
C1_QuantityAtLeastOne == \A i \in DOMAIN cart : heap[cart[i]].quantity >= Num(1)

\* C2: no two entries of a cart have the same item id, in the VoiceAssistant's
\* cart and in the cart the page holds.
C2_NoSharedItemId == NoSharedId(heap, cart) /\ NoSharedId(heap, cartItems)
\* an Add for an item the cart held was merged into its entry
C2_Witness ==
    /\ statusMessage.text = "Added"
    /\ cartItems = cart
    /\ \E i \in DOMAIN cart :
          /\ heap[cart[i]].id = statusMessage.id
          /\ heap[cart[i]].quantity > statusMessage.quantity
          /\ statusMessage.quantity >= Num(1)

\* C3: a transcript that arrives while the session is idle never changes the
\* cart, and it switches the session to listening only when it contains the
\* start phrase.
C3_IdleTranscriptOnlyStarts ==
    [][\A t \in Utterances :
          (~isListening /\ Delivered(t))
              => /\ Values(heap', cart') = Values(heap, cart)
                 /\ isListening' => Includes(Normalize(t), <<"start", "recording">>)]_vars
\* an order spoken while idle was ignored and the cart it would have changed stands
C3_Witness ==
    /\ ~isListening
    /\ cart # <<>>
    /\ runs # <<>>
    /\ runs[1].outcome = "ignored"
    /\ Positions(parseCommand(transcript), "ADD_ITEM") # {}

\* C4: a run of the transcript effect that finds the transcript it processed
\* last (the guard was not reset since) changes neither the cart nor the
\* listening state, and so does the delivery of that transcript.
C4_RepeatedTranscriptIsSkipped ==
    [][/\ \A i \in DOMAIN runs' : runs'[i].again => ~runs'[i].changed
       /\ \A t \in Utterances :
            (t = lastProcessedTranscript /\ Delivered(t))
                => /\ Values(heap', cart') = Values(heap, cart)
                   /\ isListening' = isListening]_vars
\* the spoken start made the effect run again on the transcript that named an
\* item, and that run was skipped
C4_Witness ==
    /\ Len(runs) = 2
    /\ runs[1].outcome = "start"
    /\ runs[2].again
    /\ Positions(parseCommand(transcript), "ADD_ITEM") # {}

\* C5: when a transcript applied while listening contains a stop command, the
\* cart is the one its commands up to the stop leave: nothing after the stop
\* is applied, and nothing applied before is undone.
C5_NothingAppliedAfterStop ==
    [][\A t \in Utterances :
          (IsApplied(t) /\ Positions(parseCommand(t), "STOP_RECORDING") # {})
              => Values(heap', cart') =
                    CartAfter(VAState,
                              SubSeq(parseCommand(t), 1,
                                     FirstOf(Positions(parseCommand(t), "STOP_RECORDING"))))]_vars

\* C6: once the commands of a transcript have been applied while listening,
\* the guard is cleared, or its clearing is scheduled, so that the same words
\* spoken again are processed again.
C6_GuardClearedAfterApplying ==
    (runs # <<>> /\ runs[1].outcome = "applied")
        => (lastProcessedTranscript = <<>> \/ shouldResetTranscript)

C8_ResetEmptiesCart ==
    [][/\ handleResetOrder => cart' = <<>>
       /\ \A t \in Utterances :
            (IsApplied(t) /\ Positions(parseCommand(t), "RESET_CART") # {})
                => Values(heap', cart') =
                      CartAfter([VAState EXCEPT !.cart = <<>>],
                                SubSeq(parseCommand(t),
                                       LastOf(Positions(parseCommand(t), "RESET_CART")) + 1,
                                       Len(parseCommand(t))))]_vars
\* a spoken reset emptied a cart that held entries
C8_Witness ==
    /\ statusMessage = Say("Cart has been cleared.")
    /\ cart = <<>>
    /\ snapshot.refs # <<>>

\* C9: when the text Index.processTranscript is given contains a reset phrase
\* ("cancel order", "clear cart", "reset order"), the page's cart is empty
\* after the call.
C9_CancelOrderEmptiesCart ==
    [][/\ (ProcessTimer
            /\ parseVoiceTranscript(Head(timers).text, mockFoodItems).commands.cancelOrder)
            => cartItems' = <<>>
       /\ (voiceState = "listening" /\ handleVoiceToggle
            /\ parseVoiceTranscript(pageTranscript, mockFoodItems).commands.cancelOrder)
            => cartItems' = <<>>]_vars

\* C10: the entries of the array an operation was given (ids and quantities)
\* are what they were before the operation.
C10_InputSnapshotUnchanged ==
    \A i \in DOMAIN snapshot.refs : heap[snapshot.refs[i]] = snapshot.vals[i]

\* C11: every reconciliation a timeout of handleTranscriptChange starts works
\* on the cart the page holds when it starts: the cart it leaves is the one
\* processTranscript builds from the current cart, so what the transcripts
\* before it did to the cart is kept.
C11_BurstReconciledInOrder ==
    [][(timers # <<>> /\ Len(timers') < Len(timers) /\ ProcessTimer)
          => \E r \in {processTranscript(heap, Head(timers).text, cartItems, currentView)} :
                Values(heap', cartItems') = Values(r.heap, r.cartItems)]_vars

\* C12: the cart the page holds is the VoiceAssistant's cart, entry for
\* entry, after every handler and the onCartUpdate notification it caused.
C12_SingleSessionCart == Values(heap, cartItems) = Values(heap, cart)

(***************************************************************************)
(* The cart operations as the specification states them, on the entries    *)
(* (id, quantity) of a cart.                                               *)
(***************************************************************************)
Entry(id, quantity) == [id |-> id, quantity |-> quantity]
Holds(c, id) == \E k \in DOMAIN c : c[k].id = id
QuantityOf(c, id) == c[CHOOSE k \in DOMAIN c : c[k].id = id].quantity
Without(c, id) == SelectSeq(c, LAMBDA e : e.id # id)
WithQuantity(c, id, quantity) ==
    [k \in DOMAIN c |-> IF c[k].id = id THEN Entry(id, quantity) ELSE c[k]]
\* Add{item, qty}
OpAdd(c, id, quantity) ==
    IF Holds(c, id) THEN WithQuantity(c, id, QuantityOf(c, id) + quantity)
    ELSE Append(c, Entry(id, quantity))
\* Remove{item, qty}, qty = Undefined for Remove{item, null}
OpRemove(c, id, quantity) ==
    IF ~Holds(c, id) THEN c
    ELSE IF quantity = Undefined \/ QuantityOf(c, id) - quantity <= 0 THEN Without(c, id)
    ELSE WithQuantity(c, id, QuantityOf(c, id) - quantity)
\* the item a command names, as findMenuItem resolves it
ItemOf(command) == findMenuItem(command.item, mockFoodItems)
IsCartOp(command) ==
    command.type \in {"ADD_ITEM", "REMOVE_ITEM"} /\ ItemOf(command) # NoMenuItem
Op(c, command) ==
    IF IsCartOp(command) /\ command.type = "ADD_ITEM"
        THEN OpAdd(c, ItemOf(command), command.quantity)
    ELSE IF IsCartOp(command) /\ command.type = "REMOVE_ITEM"
        THEN OpRemove(c, ItemOf(command), command.quantity)
    ELSE IF command.type = "RESET_CART" THEN <<>>
    ELSE c
RECURSIVE OpFold(_, _)
OpFold(c, commands) ==
    IF commands = <<>> THEN c ELSE OpFold(Op(c, Head(commands)), Tail(commands))

\* The last handler made the transcript effect parse the transcript and apply
\* its commands; when one of them was an Add or a Remove of a catalog item,
\* snapshot holds the cart the commands were applied to.
Applied == runs # <<>> /\ runs[1].outcome = "applied"
CartOps(commands) == {i \in DOMAIN commands : IsCartOp(commands[i])}
CatalogIds == {mockFoodItems[i].id : i \in DOMAIN mockFoodItems}
Quantities == {Num(n) : n \in 1..MaxQty}
\* the cart the ADD_ITEM updater leaves, by entries
AddedTo(h, c, id, quantity) ==
    Values(AddItemUpdater(h, c, id, quantity).heap, AddItemUpdater(h, c, id, quantity).cart)
RemovedFrom(h, c, id, quantity) ==
    Values(RemoveItemUpdater(h, c, id, quantity).heap,
           RemoveItemUpdater(h, c, id, quantity).cart)

\* C13: when a transcript with cart operations has been applied, the cart is
\* the one its operations build from the cart before it, applied one after
\* another in the order of the utterance, each to the cart the previous left.
C13_OperationsAppliedInOrder ==
    (Applied /\ CartOps(parseCommand(transcript)) # {})
        => Values(heap, cart) = OpFold(snapshot.vals, parseCommand(transcript))
\* "2 samosa. remove 1 samosa" was applied to a cart without samosa: the
\* Remove saw the entry the Add had just made
C13_Witness ==
    /\ Applied
    /\ Cardinality(CartOps(parseCommand(transcript))) >= 2
    /\ statusMessage.text = "Removed"
    /\ ~Holds(snapshot.vals, statusMessage.id)
    /\ Holds(Values(heap, cart), statusMessage.id)

\* C14: when a transcript with several commands has been applied, the status
\* message shows the fragment of every one of its commands that sets one.
C14_StatusShowsEveryFragment ==
    Applied
        => \A i \in DOMAIN parseCommand(transcript) :
              parseCommand(transcript)[i].type # "START_RECORDING"
                  => statusMessage = ApplyCommand(VAState, parseCommand(transcript)[i]).statusMessage

\* C15: when the transcript processed last holds both a start and a stop
\* command, the session listens exactly if the start is the later one; when
\* it holds both go-to-cart and back-to-menu, the cart is shown exactly if
\* go-to-cart is the later one.
C15_LaterToggleWins ==
    (runs # <<>> /\ runs[1].outcome \in {"applied", "start"})
        => /\ ( /\ Positions(parseCommand(transcript), "START_RECORDING") # {}
                /\ Positions(parseCommand(transcript), "STOP_RECORDING") # {} )
                => (isListening <=>
                        LastOf(Positions(parseCommand(transcript), "START_RECORDING"))
                            > LastOf(Positions(parseCommand(transcript), "STOP_RECORDING")))
           /\ ( /\ Applied
                /\ Positions(parseCommand(transcript), "VIEW_CART") # {}
                /\ Positions(parseCommand(transcript), "BACK_TO_MENU") # {} )
                => (showCart <=>
                        LastOf(Positions(parseCommand(transcript), "VIEW_CART"))
                            > LastOf(Positions(parseCommand(transcript), "BACK_TO_MENU")))

\* the literal command phrases
CommandPhrases ==
    { <<"start", "recording">>, <<"stop", "recording">>, <<"go", "to", "cart">>,
      <<"add", "more">>, <<"back", "to", "menu">>, <<"reset">>, <<"clear", "cart">> }
\* the places of the clause s where the phrase p stands
PhraseAt(s, p) == {k \in 1..(Len(s) - Len(p) + 1) : SubSeq(s, k, k + Len(p) - 1) = p}
\* the clause without the phrase p at place k
Rest(s, p, k) == SubSeq(s, 1, k - 1) \o SubSeq(s, k + Len(p), Len(s))
Clauses(text) == SplitSentences(Normalize(text), <<>>)

\* C16: when a clause of the applied transcript holds a command phrase and
\* more text, every Add or Remove that the text without the phrase yields is
\* among the commands parsed from the clause.
C16_OrderBesideCommandPhraseKept ==
    Applied
        => \A i \in DOMAIN Clauses(transcript) : \A p \in CommandPhrases :
              \A k \in PhraseAt(Clauses(transcript)[i], p) :
                 Rest(Clauses(transcript)[i], p, k) # <<>>
                    => \A j \in CartOps(SentenceCommands(Rest(Clauses(transcript)[i], p, k))) :
                          \E m \in DOMAIN SentenceCommands(Clauses(transcript)[i]) :
                             SentenceCommands(Clauses(transcript)[i])[m]
                                = SentenceCommands(Rest(Clauses(transcript)[i], p, k))[j]

\* C17: the ADD_ITEM updater applied to the empty cart, for any catalog item
\* and any quantity of at least 1, returns a cart of one entry, the item's
\* with that quantity; and so is the cart after a transcript that is one
\* such Add has been applied to the empty cart.
C17_AddToEmptyCart ==
    /\ \A id \in CatalogIds : \A q \in Quantities :
          AddedTo(<<>>, <<>>, id, q) = <<Entry(id, q)>>
    /\ ( /\ Applied
         /\ snapshot.vals = <<>>
         /\ Len(parseCommand(transcript)) = 1
         /\ CartOps(parseCommand(transcript)) = {1}
         /\ parseCommand(transcript)[1].type = "ADD_ITEM"
         /\ parseCommand(transcript)[1].quantity >= Num(1) )
         => Values(heap, cart) = <<Entry(ItemOf(parseCommand(transcript)[1]),
                                         parseCommand(transcript)[1].quantity)>>
\* "3 gulab jamun" was applied to the empty cart
C17_Witness ==
    /\ Applied
    /\ snapshot.vals = <<>>
    /\ Len(parseCommand(transcript)) = 1
    /\ statusMessage.text = "Added"
    /\ statusMessage.quantity > Num(1)
    /\ Len(cart) = 1

\* C18: on every cart the session reaches, two Adds of an item one after
\* the other leave the cart that one Add of the sum of their quantities
\* leaves; and the cart after a transcript of two Adds of one item is the
\* cart before it with one Add of the sum.
C18_AddsMerge ==
    /\ \A id \in CatalogIds : \A q1 \in Quantities : \A q2 \in Quantities :
          AddedTo(AddItemUpdater(heap, cart, id, q1).heap,
                  AddItemUpdater(heap, cart, id, q1).cart, id, q2)
            = AddedTo(heap, cart, id, q1 + q2)
    /\ ( /\ Applied
         /\ Len(parseCommand(transcript)) = 2
         /\ CartOps(parseCommand(transcript)) = {1, 2}
         /\ parseCommand(transcript)[1].type = "ADD_ITEM"
         /\ parseCommand(transcript)[2].type = "ADD_ITEM"
         /\ ItemOf(parseCommand(transcript)[1]) = ItemOf(parseCommand(transcript)[2]) )
         => Values(heap, cart) =
               OpAdd(snapshot.vals, ItemOf(parseCommand(transcript)[1]),
                     parseCommand(transcript)[1].quantity + parseCommand(transcript)[2].quantity)
\* "samosa. 2 samosa" was applied to a cart without samosa: the entry holds
\* more than the second Add brought
C18_Witness ==
    /\ Applied
    /\ Len(parseCommand(transcript)) = 2
    /\ Positions(parseCommand(transcript), "ADD_ITEM") = {1, 2}
    /\ statusMessage.text = "Added"
    /\ ~Holds(snapshot.vals, statusMessage.id)
    /\ QuantityOf(Values(heap, cart), statusMessage.id) > statusMessage.quantity

\* C19: on every cart the session reaches, the REMOVE_ITEM updater without
\* a quantity leaves no entry for the item; and after a transcript whose
\* last cart operation is such a Remove the cart has no entry for its item.
C19_RemoveAllLeavesNoEntry ==
    /\ \A id \in CatalogIds : ~Holds(RemovedFrom(heap, cart, id, Undefined), id)
    /\ \A id \in CatalogIds : \A q \in Quantities :
          ~Holds(RemovedFrom(AddItemUpdater(heap, cart, id, q).heap,
                             AddItemUpdater(heap, cart, id, q).cart, id, Undefined), id)
    /\ (Applied /\ statusMessage.text = "Removed all")
          => ~Holds(Values(heap, cart), statusMessage.id)
\* "remove samosa" was applied to a cart that held more than one samosa
C19_Witness ==
    /\ Applied
    /\ statusMessage.text = "Removed all"
    /\ Holds(snapshot.vals, statusMessage.id)
    /\ QuantityOf(snapshot.vals, statusMessage.id) > Num(1)
    /\ ~Holds(Values(heap, cart), statusMessage.id)

\* C20: on every cart the session reaches, the REMOVE_ITEM updater with a
\* quantity n, for an item the cart holds with quantity e, leaves the entry
\* with e - n when that is at least 1 and no entry when n >= e, the other
\* entries as they were; and so does a transcript that is one such Remove.
C20_RemoveQuantityClamped ==
    /\ \A i \in DOMAIN cart : \A n \in Quantities \cup {Num(0), Num(MaxQty + 1)} :
          RemovedFrom(heap, cart, heap[cart[i]].id, n)
            = IF heap[cart[i]].quantity - n >= Num(1)
              THEN WithQuantity(Values(heap, cart), heap[cart[i]].id, heap[cart[i]].quantity - n)
              ELSE Without(Values(heap, cart), heap[cart[i]].id)
    /\ ( /\ Applied
         /\ Len(parseCommand(transcript)) = 1
         /\ statusMessage.text = "Removed"
         /\ Holds(snapshot.vals, statusMessage.id) )
         => /\ \A k \in DOMAIN cart : heap[cart[k]].quantity >= Num(1)
            /\ Values(heap, cart) =
                  IF QuantityOf(snapshot.vals, statusMessage.id) - statusMessage.quantity >= Num(1)
                  THEN WithQuantity(snapshot.vals, statusMessage.id,
                                    QuantityOf(snapshot.vals, statusMessage.id)
                                        - statusMessage.quantity)
                  ELSE Without(snapshot.vals, statusMessage.id)
\* "remove 1 gulab jamun" was applied to a cart with 3 gulab jamun and left 2
C20_Witness ==
    /\ Applied
    /\ Len(parseCommand(transcript)) = 1
    /\ statusMessage.text = "Removed"
    /\ statusMessage.quantity = Num(1)
    /\ Holds(snapshot.vals, statusMessage.id)
    /\ QuantityOf(snapshot.vals, statusMessage.id) = Num(3)
    /\ QuantityOf(Values(heap, cart), statusMessage.id) = Num(2)

\* C21: on every cart the session reaches, a Remove of a catalog item the
\* cart has no entry for, with or without a quantity, returns the cart as it
\* was, in the VoiceAssistant's updater and in the page's removal loop; and
\* the cart after a transcript that is one such Remove is the cart before it.
C21_RemoveAbsentIsNoOp ==
    /\ \A id \in CatalogIds : \A q \in Quantities \cup {Undefined} :
          ~Holds(Values(heap, cart), id)
              => /\ RemovedFrom(heap, cart, id, q) = Values(heap, cart)
                 /\ q # Undefined
                      => Values(RemoveEach(heap, cart, <<Entry(id, q)>>).heap,
                                RemoveEach(heap, cart, <<Entry(id, q)>>).cart)
                            = Values(heap, cart)
    /\ ( /\ Applied
         /\ Len(parseCommand(transcript)) = 1
         /\ statusMessage.text \in {"Removed", "Removed all"}
         /\ ~Holds(snapshot.vals, statusMessage.id) )
         => Values(heap, cart) = snapshot.vals
\* "remove samosa" was applied to a cart that held entries, none for samosa
C21_Witness ==
    /\ Applied
    /\ Len(parseCommand(transcript)) = 1
    /\ statusMessage.text = "Removed all"
    /\ snapshot.vals # <<>>
    /\ ~Holds(snapshot.vals, statusMessage.id)
    /\ Values(heap, cart) = snapshot.vals

\* a command whose item text names no catalog item
IsUnresolved(command) ==
    command.type \in {"ADD_ITEM", "REMOVE_ITEM"} /\ ItemOf(command) = NoMenuItem
NotFoundStatus(command) == Message("not found in menu", Undefined, NoMenuItem, command.item)

\* C22: when a command of the applied transcript names no catalog item, the
\* status message is the not-found message with its item text, and the cart
\* is the one the other operations of the transcript build, in order, from
\* the cart before it.
C22_ItemNotFoundReported ==
    Applied
        => \A i \in DOMAIN parseCommand(transcript) :
              IsUnresolved(parseCommand(transcript)[i])
                  => /\ statusMessage = NotFoundStatus(parseCommand(transcript)[i])
                     /\ CartOps(parseCommand(transcript)) # {}
                          => Values(heap, cart)
                                = OpFold(snapshot.vals, parseCommand(transcript))

\* a text from which no command is extracted: each of its clauses is a bare
\* number (a text of punctuation alone has no clause)
NoOperationText(t) ==
    \A i \in DOMAIN Clauses(t) : Len(Clauses(t)[i]) = 1 /\ IsDigits(Clauses(t)[i][1])
NoOperationTexts == {t \in MenuUtterances : NoOperationText(t)}
UnknownStatus == Say("Command not recognized. Please try again.")

\* C23: a text without a command parses to the one command UNKNOWN, and
\* its delivery while listening changes the status message alone: the cart,
\* the listening state and the view stay as they were.
C23_UnrecognizedOnlyStatus ==
    [][\A t \in NoOperationTexts :
          /\ parseCommand(t) = <<Plain("UNKNOWN")>>
          /\ IsApplied(t)
               => /\ Values(heap', cart') = Values(heap, cart)
                  /\ isListening' = isListening
                  /\ showCart' = showCart
                  /\ statusMessage' = UnknownStatus]_vars
\* a bare number was heard while the cart held entries and was shown
C23_Witness ==
    /\ Applied
    /\ NoOperationText(transcript)
    /\ statusMessage = UnknownStatus
    /\ cart # <<>>
    /\ showCart

\* C24: every entry of the VoiceAssistant's cart, and of the cart handed to
\* the page, has the id of an item of the catalog.
C24_EntriesAreCatalogItems ==
    /\ \A i \in DOMAIN cart : heap[cart[i]].id \in CatalogIds
    /\ \A i \in DOMAIN cartItems : heap[cartItems[i]].id \in CatalogIds
\* a transcript naming an unknown item and a catalog item was applied: the
\* cart holds an entry
C24_Witness ==
    /\ Applied
    /\ \E i \in DOMAIN parseCommand(transcript) : IsUnresolved(parseCommand(transcript)[i])
    /\ CartOps(parseCommand(transcript)) # {}
    /\ cart # <<>>

\* the catalog item of a name
IdOf(name) == findMenuItem(name, mockFoodItems)

\* C25: "2 idli 3 mango lassi", delivered while listening with an empty
\* cart, leaves the cart [Idli Sambhar x2, Mango Lassi x3].
C25_TwoQuantitiesTwoAdds ==
    [][(IsApplied(<<"2", "idli", "3", "mango", "lassi">>) /\ cart = <<>>)
          => Values(heap', cart') = << Entry(IdOf(<<"Idli", "Sambhar">>), Num(2)),
                                       Entry(IdOf(<<"Mango", "Lassi">>), Num(3)) >>]_vars

\* a text "remove <item text>" of one clause whose word after "remove" is no
\* quantity token
IsRemoveOfItem(t) ==
    /\ Len(t) >= 2
    /\ Len(Clauses(t)) = 1
    /\ Normalize(t)[1] = "remove"
    /\ parseQuantity(t[2]) = Undefined

\* C26: when such a text has been applied, the command parsed from it is the
\* Remove of the whole item text without a quantity, and the cart is the
\* cart before it without the entry of the item the whole text names.
C26_RemoveNamesWholeItem ==
    (Applied /\ IsRemoveOfItem(transcript))
        => /\ parseCommand(transcript)
                = <<Cmd("REMOVE_ITEM", Tail(Normalize(transcript)), Undefined)>>
           /\ statusMessage.text = "Removed all"
                => Values(heap, cart) = Without(snapshot.vals, IdOf(Tail(transcript)))

\* a text "remove <catalog item name>", without a quantity
IsPageRemove(t) ==
    /\ Len(t) >= 2
    /\ Normalize(t)[1] = "remove"
    /\ \E i \in DOMAIN mockFoodItems : Normalize(mockFoodItems[i].name) = Normalize(Tail(t))

\* C27: when the page reconciles a text "remove <catalog item name>", the
\* cart it leaves has no entry for that item.
C27_PageRemoveWithoutQuantity ==
    [][( /\ timers # <<>>
         /\ IsPageRemove(Head(timers).text)
         /\ Len(timers') < Len(timers)
         /\ ProcessTimer )
          => ~Holds(Values(heap', cartItems'), IdOf(Tail(Head(timers).text)))]_vars

\* a whole number of at least 1
IsQuantity(q) == q >= Num(1) /\ q % Num(1) = 0
AllQuantities(items) == \A i \in DOMAIN items : IsQuantity(items[i].quantity)

\* C28: the quantities parseVoiceTranscript returns for every text waiting
\* to be reconciled, and the quantities of the entries of the page's cart,
\* are whole numbers of at least 1.
C28_PageQuantitiesWhole ==
    /\ \A k \in DOMAIN timers :
          timers[k].kind = "process"
              => /\ AllQuantities(parseVoiceTranscript(timers[k].text, mockFoodItems).addItems)
                 /\ AllQuantities(parseVoiceTranscript(timers[k].text, mockFoodItems).removeItems)
    /\ \A i \in DOMAIN cartItems : IsQuantity(heap[cartItems[i]].quantity)

\* the number words of the vocabulary, with their numbers
NumberWords ==
    << <<"zero", 0>>, <<"one", 1>>, <<"two", 2>>, <<"three", 3>>, <<"four", 4>>,
       <<"five", 5>>, <<"six", 6>>, <<"seven", 7>>, <<"eight", 8>>, <<"nine", 9>>,
       <<"ten", 10>>, <<"twenty", 20>>, <<"twenty-one", 21>> >>
\* the number the specification's quantity resolver gives a token
ExpectedQuantity(tok) ==
    IF IsDigits(tok) THEN Num(DigitsValue(Spell[tok], 0))
    ELSE IF \E i \in DOMAIN NumberWords : NumberWords[i][1] = toLowerCase(tok)
    THEN Num(NumberWords[CHOOSE i \in DOMAIN NumberWords :
                            NumberWords[i][1] = toLowerCase(tok)][2])
    ELSE Undefined

\* C29: the quantity parseQuantity gives the first word of every clause of
\* the applied transcript is the number of the digit string or number word
\* it is, and unresolved for any other token.
C29_ParseQuantityTable ==
    Applied
        => \A i \in DOMAIN Clauses(transcript) :
              parseQuantity(Clauses(transcript)[i][1])
                  = ExpectedQuantity(Clauses(transcript)[i][1])

\* C30: "twenty-one samosa" and "twenty one samosa", delivered while
\* listening with an empty cart, leave the cart [Samosa x21].
C30_CompoundNumberQuantity ==
    [][\A t \in {<<"twenty-one", "samosa">>, <<"twenty", "one", "samosa">>} :
          (IsApplied(t) /\ cart = <<>>)
              => Values(heap', cart') = <<Entry(IdOf(<<"Samosa">>), Num(21))>>]_vars

\* the item texts tried against the catalog: texts one item includes, texts
\* several items include, a text no item includes
Fragments ==
    { <<"tikka">>, <<"chicken">>, <<"a">>, <<"dosa">>, <<"samosa">>, <<"Paneer", "Tikka">>,
      <<"chicken", "tikka">>, <<"xyz">> }
\* the places in the catalog of the items whose name includes the fragment
Matching(fragment) ==
    {i \in DOMAIN mockFoodItems :
        Includes(Normalize(mockFoodItems[i].name), Normalize(fragment))}
Place(id) == CHOOSE i \in DOMAIN mockFoodItems : mockFoodItems[i].id = id
\* findMenuItem gives a fragment that items include one of them, and none of
\* them is listed before it
FirstListed(fragment) ==
    IF Matching(fragment) = {} THEN IdOf(fragment) = NoMenuItem
    ELSE /\ IdOf(fragment) \in CatalogIds
         /\ Place(IdOf(fragment)) \in Matching(fragment)
         /\ \A i \in Matching(fragment) : Place(IdOf(fragment)) <= i
FirstListedWins == \A fragment \in Fragments : FirstListed(fragment)

\* C31: findMenuItem resolves a fragment that several catalog items include
\* to the one of them listed first; and when a transcript of one Add or
\* Remove has been applied, the item it acted on is the first-listed item
\* that includes the command's item text.
C31_FirstListedItemWins ==
    /\ FirstListedWins
    /\ ( /\ Applied
         /\ Len(parseCommand(transcript)) = 1
         /\ IsCartOp(parseCommand(transcript)[1]) )
         => /\ FirstListed(parseCommand(transcript)[1].item)
            /\ statusMessage.id = IdOf(parseCommand(transcript)[1].item)
\* "remove chicken tikka" asked for "tikka", which Paneer Tikka and Chicken
\* Tikka include, and the entry of Paneer Tikka, listed first, was removed
C31_Witness ==
    /\ Applied
    /\ Len(parseCommand(transcript)) = 1
    /\ IsCartOp(parseCommand(transcript)[1])
    /\ Cardinality(Matching(parseCommand(transcript)[1].item)) >= 2
    /\ statusMessage.text = "Removed all"
    /\ Holds(snapshot.vals, statusMessage.id)
    /\ ~Holds(Values(heap, cart), statusMessage.id)

\* C32: after a tap on the card of item i in a menu grid, in the idle and in
\* the listening state, the cart is the cart before the tap with Add{i, 1}
\* applied: the entry of i with one more, or a new last entry {i, 1}.
C32_ManualAddIsAddOne ==
    tapped # NoMenuItem
        => Values(heap, cart) = OpAdd(snapshot.vals, tapped, Num(1))

\* the session is idle and holds a transcript that was delivered while it
\* was idle: no transcript reset is pending, as it would be after a stop
HoldsIdleTranscript == ~isListening /\ ~shouldResetTranscript /\ transcript # <<>>

\* C33: the Start button pressed while the session holds a transcript that
\* was delivered while idle leaves the cart as it is: the operations of
\* that transcript are not applied.
C33_IdleTranscriptNeverApplied ==
    [][(HoldsIdleTranscript /\ transcript' = transcript /\ toggleRecording)
          => Values(heap', cart') = Values(heap, cart)]_vars

\* u is t with further sentences after it
Extends(u, t) == Len(u) > Len(t) + 1 /\ IsPrefix(t, u) /\ u[Len(t) + 1] \in SentenceMarks
Further(u, t) == SubSeq(u, Len(t) + 2, Len(u))
Extensions == {p \in GrowUtterances \X GrowUtterances : Extends(p[2], p[1])}

\* C34: when the session is listening and has processed the transcript t,
\* and the recogniser delivers t with further sentences, the cart after the
\* delivery is the cart before it with the operations of the further
\* sentences alone: the operations of t are not applied once more.
C34_GrownTranscriptAppliedOnce ==
    [][\A p \in Extensions :
          ( /\ isListening
            /\ isInitialized
            /\ transcript = p[1]
            /\ lastProcessedTranscript = p[1]
            /\ Delivered(p[2]) )
              => Values(heap', cart')
                    = OpFold(Values(heap, cart), parseCommand(Further(p[2], p[1])))]_vars

\* the transcript t ends the capture when applied: it holds a stop command,
\* and no start command after the last one
EndsCapture(t) ==
    /\ Positions(parseCommand(t), "STOP_RECORDING") # {}
    /\ \A i \in Positions(parseCommand(t), "START_RECORDING") :
          i < LastOf(Positions(parseCommand(t), "STOP_RECORDING"))
\* the pairs (t, u) of a transcript t that ends the capture and the
\* transcript u the recogniser delivers next: t with further sentences
\* that hold no start phrase
AfterStop ==
    {p \in Extensions :
        /\ EndsCapture(p[1])
        /\ ~Includes(Normalize(Further(p[2], p[1])), <<"start", "recording">>)}

\* C35: when a spoken stop has been processed and the transcript reset is
\* still pending, the delivery of the same transcript with further
\* sentences that hold no start phrase leaves the session idle.
C35_StaysIdleAfterSpokenStop ==
    [][\A p \in AfterStop :
          ( /\ ~isListening
            /\ isInitialized
            /\ shouldResetTranscript
            /\ transcript = p[1]
            /\ lastProcessedTranscript = p[1]
            /\ Delivered(p[2]) )
              => ~isListening']_vars

\* C36: the page's voice state leaves 'listening' only by a press of the
\* toggle, which takes it to 'processing': no step, and so no timeout of an
\* earlier stop, takes it from 'listening' to 'idle'.
C36_ListeningLeftOnlyByToggle ==
    [][voiceState = "listening" => voiceState' \in {"listening", "processing"}]_vars

\* the place of the entry of an item in a cart that holds it
PlaceIn(c, id) == CHOOSE k \in DOMAIN c : c[k].id = id
\* what an operation on item id may do to a cart: the entries of the other
\* items are what they were, in their order; an entry of the item that stays
\* keeps its place; a new entry is the last
Frame(before, after, id) ==
    /\ Without(after, id) = Without(before, id)
    /\ (Holds(before, id) /\ Holds(after, id)) => PlaceIn(after, id) = PlaceIn(before, id)
    /\ (~Holds(before, id) /\ Holds(after, id)) => after[Len(after)].id = id

\* C37: on every cart the session reaches, the ADD_ITEM and REMOVE_ITEM
\* updaters, for any catalog item and quantity, change no entry of another
\* item, keep the order of the entries and put a new entry last; and so
\* does a transcript that is one Add or Remove of a catalog item.
C37_OtherEntriesUntouched ==
    /\ \A id \in CatalogIds : \A q \in Quantities :
          Frame(Values(heap, cart), AddedTo(heap, cart, id, q), id)
    /\ \A id \in CatalogIds : \A q \in Quantities \cup {Undefined} :
          Frame(Values(heap, cart), RemovedFrom(heap, cart, id, q), id)
    /\ ( /\ Applied
         /\ Len(parseCommand(transcript)) = 1
         /\ IsCartOp(parseCommand(transcript)[1]) )
         => Frame(snapshot.vals, Values(heap, cart), ItemOf(parseCommand(transcript)[1]))
\* "remove 1 gulab jamun" was applied to a cart whose first entry was gulab
\* jamun, before another item: the entry stayed first and the other as it was
C37_Witness ==
    /\ Applied
    /\ Len(parseCommand(transcript)) = 1
    /\ statusMessage.text = "Removed"
    /\ Len(snapshot.vals) >= 2
    /\ snapshot.vals[1].id = statusMessage.id
    /\ Len(cart) = Len(snapshot.vals)
    /\ heap[cart[1]].id = statusMessage.id
    /\ heap[cart[1]].quantity < snapshot.vals[1].quantity

\* the transcripts of Utterances with a stop command
StopTexts ==
    { <<"stop", "recording">>,
      <<"stop", "recording", ".", "mango", "lassi">> }
StoppedStatus == Say("Recording stopped. Say start recording to begin again.")

\* C38: a stop of the capture takes no entry from the cart.  The Stop
\* button and the transcript reset that follows a stop leave the cart and the
\* view as they were; a transcript with a stop command, applied while
\* listening, leaves the cart that its Adds, Removes and resets build from
\* the cart before it, the stop command adding nothing to them.
C38_StopKeepsCart ==
    [][/\ (isListening /\ ~isListening' /\ toggleRecording)
            => /\ Values(heap', cart') = Values(heap, cart)
               /\ showCart' = showCart
       /\ (shouldResetTranscript /\ ~shouldResetTranscript' /\ ResetTimer)
            => /\ Values(heap', cart') = Values(heap, cart)
               /\ showCart' = showCart
       /\ \A t \in StopTexts :
            IsApplied(t)
                => Values(heap', cart') = OpFold(Values(heap, cart), parseCommand(t))]_vars
\* a spoken stop was applied to a cart with entries; the reset is pending
C38_Witness ==
    /\ Applied
    /\ transcript \in StopTexts
    /\ statusMessage = StoppedStatus
    /\ ~isListening
    /\ shouldResetTranscript
    /\ cart # <<>>
====
